---- MODULE Spec2Model ----
(***************************************************************************)
(* Model of the opt! procedural macro of option-chain-tool (src/src/lib.rs) *)
(* and of the evaluation of the nested `if let` expression it emits.        *)
(***************************************************************************)
EXTENDS Integers, Sequences, FiniteSets, TLC

\* Longest input token stream explored.
MaxLen == 5

\* Most full chain operators in a generated chain.
MaxOps == 3

(***************************************************************************)
(* proc_macro token trees.  Every token is a record of the same shape:      *)
(*   tt     : "Punct" | "Ident" | "Group"                                   *)
(*   text   : the punctuation character or the identifier                   *)
(*   attr   : Spacing of a Punct, Delimiter of a Group                      *)
(*   stream : the token stream inside a Group                               *)
(***************************************************************************)
Punct(ch, spacing) == [tt |-> "Punct", text |-> ch, attr |-> spacing, stream |-> <<>>]

Ident(name) == [tt |-> "Ident", text |-> name, attr |-> "", stream |-> <<>>]

Group(delimiter, body) == [tt |-> "Group", text |-> "", attr |-> delimiter, stream |-> body]

\* The tokens an input stream is drawn from: `?` and `.` with either spacing,
\* a plain identifier, the identifiers Ok and Err, and a call-argument group.
InputTokens ==
    { Punct("?", "Joint"), Punct("?", "Alone"),
      Punct(".", "Alone"), Punct(".", "Joint"),
      Ident("a"), Ident("Ok"), Ident("Err"),
      Group("Parenthesis", <<>>) }

\* Every token stream of at most MaxLen tokens.
ShortStreams == UNION { [1..n -> InputTokens] : n \in 0..MaxLen }

\* The operators as the macro's documentation writes them, and the trailing
\* forms `?`, `?Ok`, `?Err`.
ChainOperators ==
    { <<Punct("?", "Joint"), Punct(".", "Alone")>>,
      <<Punct("?", "Alone"), Ident("Ok"), Punct(".", "Alone")>>,
      <<Punct("?", "Alone"), Ident("Err"), Punct(".", "Alone")>> }

TrailingOperators ==
    { <<>>, <<Punct("?", "Alone")>>,
      <<Punct("?", "Alone"), Ident("Ok")>>,
      <<Punct("?", "Alone"), Ident("Err")>> }

\* A field access and a method call.
Accesses == { <<Ident("a")>>, <<Ident("a"), Group("Parenthesis", <<>>)>> }

\* base (operator access)^k
RECURSIVE ChainsOf(_)
ChainsOf(k) ==
    IF k = 0
    THEN Accesses
    ELSE { c \o op \o acc : c \in ChainsOf(k - 1), op \in ChainOperators, acc \in Accesses }

\* The documented call shape `base (operator access)* operator?` with at most
\* MaxOps full operators.
Chains ==
    { c \o t : c \in UNION { ChainsOf(k) : k \in 0..MaxOps }, t \in TrailingOperators }

Inputs == ShortStreams \cup Chains

\* A scanner that takes a `?` for an operator lead only when it is joined to
\* the next punctuation.
IsPunctCharJoined(tt, c) ==
    tt.tt = "Punct" /\ tt.text = c /\ (c = "?" => tt.attr = "Joint")

\* q.as_char() == c of a TokenTree::Punct; the spacing is not inspected.
IsPunctChar(tt, c) == tt.tt = "Punct" /\ tt.text = c

IsIdentNamed(tt, name) == tt.tt = "Ident" /\ tt.text = name

\* OptionalVariant
OptionalVariant == {"Root", "Option", "Ok", "Err", "Required"}

\* OptionalSegment
OptionalSegment(variant, tokens) == [variant |-> variant, tokens |-> tokens]

(***************************************************************************)
(* split_on_optional_variants, the lookahead after a `?` at position i.     *)
(* Returns the recognised variant ("NoOp" for None), the position the       *)
(* iterator is left at, and the accumulator after the rollback push.        *)
(***************************************************************************)
DetectVariant(toks, i, current) ==
    IF i + 1 <= Len(toks) /\ IsPunctChar(toks[i + 1], ".")
    THEN [variant |-> "Option", next |-> i + 2, current |-> current]
    ELSE IF i + 1 <= Len(toks)
            /\ (IsIdentNamed(toks[i + 1], "Ok") \/ IsIdentNamed(toks[i + 1], "Err"))
    THEN LET v == IF toks[i + 1].text = "Ok" THEN "Ok" ELSE "Err" IN
         IF i + 2 <= Len(toks) /\ IsPunctChar(toks[i + 2], ".")
         THEN [variant |-> v, next |-> i + 3, current |-> current]
         ELSE [variant |-> "NoOp", next |-> i + 3,
               current |-> IF i + 2 <= Len(toks)
                           THEN Append(current, toks[i + 2])
                           ELSE current]
    ELSE [variant |-> "NoOp", next |-> i + 1, current |-> current]

\* The `while let Some(tt) = iter.next()` loop and the push after it.
RECURSIVE ScanLoop(_, _, _, _, _)
ScanLoop(toks, i, result, current, current_variant) ==
    IF i > Len(toks)
    THEN Append(result, OptionalSegment(current_variant, current))
    ELSE IF IsPunctChar(toks[i], "?")
    THEN LET d == DetectVariant(toks, i, current) IN
         IF d.variant # "NoOp"
         THEN ScanLoop(toks, d.next,
                       IF current # <<>>
                       THEN Append(result, OptionalSegment(current_variant, current))
                       ELSE result,
                       <<>>, d.variant)
         ELSE ScanLoop(toks, d.next, result, d.current, current_variant)
    ELSE ScanLoop(toks, i + 1, result, Append(current, toks[i]), current_variant)

\* The second pass left out: every segment keeps the kind it was pushed with.
ShiftVariantsSkipped(result) == result

\* for i in 0..result.len() - 1 { result[i].variant = result[i + 1].variant }
ShiftVariants(result) ==
    [i \in 1..Len(result) |->
        IF i < Len(result)
        THEN OptionalSegment(result[i + 1].variant, result[i].tokens)
        ELSE result[i]]

\* The match on input_tokens.last().unwrap()
LastVariant(last) ==
    IF IsPunctChar(last, "?") THEN "Option"
    ELSE IF IsIdentNamed(last, "Ok") THEN "Ok"
    ELSE IF IsIdentNamed(last, "Err") THEN "Err"
    ELSE "Required"

split_on_optional_variants(input_tokens) ==
    LET result == ShiftVariants(ScanLoop(input_tokens, 1, <<>>, <<>>, "Root")) IN
    IF input_tokens = <<>>
    THEN result
    ELSE [result EXCEPT ![Len(result)].variant = LastVariant(input_tokens[Len(input_tokens)])]

(***************************************************************************)
(* The expression builder.                                                  *)
(***************************************************************************)
\* The placeholder identifier bound by every unwrap step.
PlaceholderV == Ident("____v")

\* What a panic of the macro leaves in place of an output stream.
Panicked == <<Ident("panic: if_let called with Root variant")>>

some_wrapper(body) == <<Ident("Some"), Group("Parenthesis", body)>>

ends_with_fn_call(tokens) ==
    /\ tokens # <<>>
    /\ tokens[Len(tokens)].tt = "Group"
    /\ tokens[Len(tokens)].attr = "Parenthesis"

if_let(variant, after_eq, body, is_add_amp) ==
    IF variant = "Root"
    THEN Panicked
    ELSE <<Ident("if"), Ident("let")>>
         \o (CASE variant = "Option" -> <<Ident("Some")>>
               [] variant = "Ok" -> <<Ident("Ok")>>
               [] variant = "Err" -> <<Ident("Err")>>
               [] OTHER -> <<>>)
         \o <<Group("Parenthesis", <<PlaceholderV>>), Punct("=", "Alone")>>
         \o (IF is_add_amp THEN <<Punct("&", "Joint")>> ELSE <<>>)
         \o after_eq
         \o <<Group("Brace", body), Ident("else"), Group("Brace", <<Ident("None")>>)>>

\* The loop without `.rev()`: the segments are nested first to last, so the
\* last segment becomes the outermost `if let`.
RECURSIVE BuildLoopForward(_, _, _)
BuildLoopForward(resp, index, result) ==
    IF index >= Len(resp) \/ result = Panicked
    THEN result
    ELSE LET segment == resp[index + 1]
             inner == IF result = <<>> THEN some_wrapper(<<PlaceholderV>>) ELSE result
         IN
         IF Len(resp) - 1 = index
         THEN BuildLoopForward(resp, index + 1,
                               if_let(segment.variant, segment.tokens, inner, TRUE))
         ELSE LET is_add_amp == ~(index = 0 /\ ends_with_fn_call(segment.tokens))
                  after_eq == <<PlaceholderV, Punct(".", "Joint")>> \o segment.tokens
              IN BuildLoopForward(resp, index + 1,
                                  if_let(segment.variant, after_eq, inner, is_add_amp))

\* The body of opt's `for (index, segment) in resp.into_iter().rev().enumerate()`;
\* index counts from 0 at the last segment.
RECURSIVE BuildLoop(_, _, _)
BuildLoop(resp, index, result) ==
    IF index >= Len(resp) \/ result = Panicked
    THEN result
    ELSE LET segment == resp[Len(resp) - index]
             inner == IF result = <<>> THEN some_wrapper(<<PlaceholderV>>) ELSE result
         IN
         IF Len(resp) - 1 = index
         THEN BuildLoop(resp, index + 1, if_let(segment.variant, segment.tokens, inner, TRUE))
         ELSE LET is_add_amp == ~(index = 0 /\ ends_with_fn_call(segment.tokens))
                  after_eq == <<PlaceholderV, Punct(".", "Joint")>> \o segment.tokens
              IN BuildLoop(resp, index + 1,
                           if_let(segment.variant, after_eq, inner, is_add_amp))

(***************************************************************************)
(* The emitted expression, as the compiler and the program treat it.        *)
(* An emitted node is                                                       *)
(*   if let [Some|Ok|Err] (____v) = [&] scrutinee { then } else { None }    *)
(***************************************************************************)
IsIfLet(s) == Len(s) >= 6 /\ s[1] = Ident("if") /\ s[2] = Ident("let")

\* The constructor of the pattern; "Bind" for the irrefutable pattern (____v)
\* that a Required segment gets.
PatternOf(s) == IF s[3].tt = "Ident" THEN s[3].text ELSE "Bind"

AfterEq(s) == (IF s[3].tt = "Ident" THEN 5 ELSE 4) + 1

HasAmp(s) == s[AfterEq(s)] = Punct("&", "Joint")

ScrutineeOf(s) == SubSeq(s, IF HasAmp(s) THEN AfterEq(s) + 1 ELSE AfterEq(s), Len(s) - 3)

ThenOf(s) == s[Len(s) - 2].stream

ElseOf(s) == s[Len(s)].stream

\* A scrutinee the compiler accepts as a place or call expression:
\*   ident (args)* ( . ident (args)* )*
RECURSIVE ExprFrom(_, _, _)
ExprFrom(ts, i, wantIdent) ==
    IF i > Len(ts)
    THEN ~wantIdent
    ELSE IF wantIdent
    THEN ts[i].tt = "Ident" /\ ExprFrom(ts, i + 1, FALSE)
    ELSE \/ ts[i].tt = "Group" /\ ts[i].attr = "Parenthesis" /\ ExprFrom(ts, i + 1, FALSE)
         \/ IsPunctChar(ts[i], ".") /\ ExprFrom(ts, i + 1, TRUE)

IsExpr(ts) == ExprFrom(ts, 1, TRUE)

\* The whole expansion parses: every nested scrutinee is an expression.
RECURSIVE Compiles(_)
Compiles(s) ==
    IF IsIfLet(s)
    THEN IsExpr(ScrutineeOf(s)) /\ Compiles(ThenOf(s))
    ELSE s = some_wrapper(<<PlaceholderV>>)

\* The states a scrutinee's value can be in, given the type its pattern demands.
ValuesFor(pattern) ==
    CASE pattern = "Some" -> {"Some", "None"}
      [] pattern \in {"Ok", "Err"} -> {"Ok", "Err"}
      [] OTHER -> {"Some", "None", "Ok", "Err"}

PatternMatches(pattern, val) == pattern = "Bind" \/ pattern = val

VARIABLES input, segments, output, pc, frame, trace, res

vars == <<input, segments, output, pc, frame, trace, res>>

NoResult == [tag |-> "", of |-> 0]

Init ==
    /\ input \in Inputs
    /\ segments = <<>>
    /\ output = <<>>
    /\ pc = "input"
    /\ frame = <<>>
    /\ trace = <<>>
    /\ res = NoResult

\* pub fn opt(input: TokenStream) -> TokenStream
opt ==
    /\ pc = "input"
    /\ LET resp == split_on_optional_variants(input)
           result == BuildLoop(resp, 0, <<>>)
       IN /\ segments' = resp
          /\ output' = result
          /\ pc' = IF result = Panicked THEN "panicked" ELSE "expanded"
    /\ UNCHANGED <<input, frame, trace, res>>

\* The host compiler takes the expansion, or rejects it.
Compile ==
    /\ pc = "expanded"
    /\ IF Compiles(output)
       THEN pc' = "running" /\ frame' = output
       ELSE pc' = "rejected" /\ frame' = frame
    /\ UNCHANGED <<input, segments, output, trace, res>>

\* One `if let`: the scrutinee is evaluated once, then one branch is taken.
EvalIfLet ==
    /\ pc = "running"
    /\ IsIfLet(frame)
    /\ \E val \in ValuesFor(PatternOf(frame)) :
          /\ trace' = Append(trace, [access |-> ScrutineeOf(frame), val |-> val,
                                     amp |-> HasAmp(frame)])
          /\ frame' = IF PatternMatches(PatternOf(frame), val)
                      THEN ThenOf(frame)
                      ELSE ElseOf(frame)
    /\ UNCHANGED <<input, segments, output, pc, res>>

\* Some(____v): the value bound by the innermost unwrap, wrapped.
EvalSome ==
    /\ pc = "running"
    /\ frame = some_wrapper(<<PlaceholderV>>)
    /\ res' = [tag |-> "Some", of |-> Len(trace)]
    /\ pc' = "done"
    /\ UNCHANGED <<input, segments, output, frame, trace>>

EvalNone ==
    /\ pc = "running"
    /\ frame = <<Ident("None")>>
    /\ res' = [tag |-> "None", of |-> 0]
    /\ pc' = "done"
    /\ UNCHANGED <<input, segments, output, frame, trace>>

Next == opt \/ Compile \/ EvalIfLet \/ EvalSome \/ EvalNone

Spec == Init /\ [][Next]_vars

(***************************************************************************)
(* Properties.  The chain grammar of the documentation, read independently  *)
(* of the scanner:  chain := base (operator access)* operator?              *)
(* A `?` of either spacing counts as an operator lead here.                 *)
(***************************************************************************)
IsOkErr(tt) == IsIdentNamed(tt, "Ok") \/ IsIdentNamed(tt, "Err")

\* The kind of the full chain operator written at position i, "" if none.
OperatorAt(toks, i) ==
    IF i + 1 <= Len(toks) /\ IsPunctChar(toks[i], "?") /\ IsPunctChar(toks[i + 1], ".")
    THEN "Option"
    ELSE IF i + 2 <= Len(toks) /\ IsPunctChar(toks[i], "?") /\ IsOkErr(toks[i + 1])
            /\ IsPunctChar(toks[i + 2], ".")
    THEN toks[i + 1].text
    ELSE ""

OperatorLen(kind) == IF kind = "Option" THEN 2 ELSE 3

\* The kind of the trailing operator written at position i, "" if none.
TrailingAt(toks, i) ==
    IF i = Len(toks) /\ IsPunctChar(toks[i], "?")
    THEN "Option"
    ELSE IF i + 1 = Len(toks) /\ IsPunctChar(toks[i], "?") /\ IsOkErr(toks[i + 1])
    THEN toks[i + 1].text
    ELSE ""

\* The accesses of a chain, each with the operator written after it
\* ("Required" when none is); <<>> when the input is not a chain.
RECURSIVE RefParse(_, _, _, _)
RefParse(toks, i, cur, acc) ==
    IF i > Len(toks)
    THEN IF cur = <<>> THEN <<>> ELSE Append(acc, [access |-> cur, op |-> "Required"])
    ELSE IF IsPunctChar(toks[i], "?")
    THEN IF cur = <<>> THEN <<>>
         ELSE IF TrailingAt(toks, i) # ""
         THEN Append(acc, [access |-> cur, op |-> TrailingAt(toks, i)])
         ELSE IF OperatorAt(toks, i) # ""
         THEN RefParse(toks, i + OperatorLen(OperatorAt(toks, i)), <<>>,
                       Append(acc, [access |-> cur, op |-> OperatorAt(toks, i)]))
         ELSE <<>>
    ELSE RefParse(toks, i + 1, Append(cur, toks[i]), acc)

RefChain(toks) == RefParse(toks, 1, <<>>, <<>>)

\* The expression whose value step i of a chain unwraps.
RefScrutinee(tokens, i) ==
    IF i = 1 THEN tokens ELSE <<PlaceholderV, Punct(".", "Joint")>> \o tokens

\* The input is a chain whose base and accesses are expressions.
IsChain(toks) ==
    /\ RefChain(toks) # <<>>
    /\ \A i \in 1..Len(RefChain(toks)) : IsExpr(RefScrutinee(RefChain(toks)[i].access, i))

\* A value is in the state an operator names.
InState(op, val) ==
    \/ op = "Required"
    \/ op = "Option" /\ val = "Some"
    \/ op = "Ok" /\ val = "Ok"
    \/ op = "Err" /\ val = "Err"

\* C1: for a chain input the emitted expression evaluates to Some(v), v the
\* value of the last access, exactly when the value of every access is in the
\* state named by the operator written after it, and to None otherwise.
C1_SomeIffEveryOperatorHolds ==
    IsChain(input) =>
        /\ pc \notin {"panicked", "rejected"}
        /\ pc = "done" =>
              LET ref == RefChain(input) IN
              /\ res.tag \in {"Some", "None"}
              /\ Len(trace) <= Len(ref)
              /\ \A i \in 1..Len(trace) : trace[i].access = RefScrutinee(ref[i].access, i)
              /\ res.tag = "Some" <=>
                    /\ Len(trace) = Len(ref)
                    /\ \A i \in 1..Len(ref) : InState(ref[i].op, trace[i].val)
              /\ res.tag = "Some" => res.of = Len(ref)

\* The scrutinee the builder emits for segment i.
SegmentScrutinee(i) == RefScrutinee(segments[i].tokens, i)

\* C2: the accesses are evaluated left to right in segment order, no access is
\* evaluated after a failed unwrap, and a failed unwrap makes the result None.
C2_ShortCircuit ==
    /\ Len(trace) <= Len(segments)
    /\ \A i \in 1..Len(trace) :
          /\ trace[i].access = SegmentScrutinee(i)
          /\ i < Len(trace) => InState(segments[i].variant, trace[i].val)
    /\ (pc = "done" /\ ~InState(segments[Len(trace)].variant, trace[Len(trace)].val))
          => res.tag = "None"
    /\ (pc = "done" /\ res.tag = "None")
          => ~InState(segments[Len(trace)].variant, trace[Len(trace)].val)

\* An unwrap failed with a later method call still ahead, which never ran.
C2_Witness ==
    /\ pc = "done"
    /\ res.tag = "None"
    /\ Len(segments) >= 3
    /\ Len(trace) = 1
    /\ ends_with_fn_call(segments[2].tokens)

\* The kind of the operator trailing the input, "Required" when none trails.
RefLastKind(toks) ==
    IF IsPunctChar(toks[Len(toks)], "?") THEN "Option"
    ELSE IF Len(toks) >= 2 /\ IsOkErr(toks[Len(toks)]) /\ IsPunctChar(toks[Len(toks) - 1], "?")
    THEN toks[Len(toks)].text
    ELSE "Required"

\* C3: the last segment's kind is that of the trailing operator, and Required
\* when no operator trails the input.
C3_LastKindFromTrailingOperator ==
    (pc # "input" /\ input # <<>>) =>
        segments[Len(segments)].variant = RefLastKind(input)

\* C4: opt panics exactly on the empty input; the empty input gives one empty
\* Root segment, and no segment of a non-empty input is Root.
C4_RefusesOnlyEmptyInput ==
    pc # "input" =>
        /\ pc = "panicked" <=> input = <<>>
        /\ input = <<>> => segments = <<OptionalSegment("Root", <<>>)>>
        /\ input # <<>> =>
              /\ \A i \in 1..Len(segments) : segments[i].variant # "Root"
              /\ IsIfLet(output)

C4_Witness ==
    /\ pc = "panicked"
    /\ input = <<>>
    /\ segments = <<OptionalSegment("Root", <<>>)>>
    /\ output = Panicked

\* The input is a full chain operator followed by a chain: `?.a`, `?Ok.a`.
StartsWithOperator(toks) ==
    /\ toks # <<>>
    /\ OperatorAt(toks, 1) # ""
    /\ IsChain(SubSeq(toks, OperatorLen(OperatorAt(toks, 1)) + 1, Len(toks)))

\* C5: an input that starts with a chain operator, with no base before it,
\* makes the expansion fail: opt never returns an output for it.
C5_LeadingOperatorFailsHard ==
    (pc # "input" /\ StartsWithOperator(input)) => pc = "panicked"

\* The input is a chain followed by one more full operator and nothing else.
EndsInFullOperator(toks) ==
    \E k \in {2, 3} :
        /\ Len(toks) > k
        /\ OperatorAt(toks, Len(toks) - k + 1) # ""
        /\ OperatorLen(OperatorAt(toks, Len(toks) - k + 1)) = k
        /\ IsChain(SubSeq(toks, 1, Len(toks) - k))
        /\ RefChain(SubSeq(toks, 1, Len(toks) - k))[Len(RefChain(SubSeq(toks, 1, Len(toks) - k)))].op
              = "Required"

FinalOperator(toks) ==
    IF OperatorAt(toks, Len(toks) - 1) # "" THEN "Option" ELSE OperatorAt(toks, Len(toks) - 2)

\* C6: for `base?.f1?.` the last access is gated by the final operator and no
\* access step is built from an empty token list.
C6_NoEmptyAccessStep ==
    (pc # "input" /\ EndsInFullOperator(input)) =>
        /\ \A i \in 1..Len(segments) : segments[i].tokens # <<>>
        /\ segments[Len(segments)].variant = FinalOperator(input)
        /\ pc # "rejected"

\* The i-th `if let` of the expansion, counted from the outermost.
RECURSIVE NodeAt(_, _)
NodeAt(s, i) == IF i = 1 THEN s ELSE NodeAt(ThenOf(s), i - 1)

\* C7: at every position the scrutinee is borrowed exactly when the segment
\* does not end in a call-argument group.
C7_BorrowUnlessCall ==
    pc \in {"expanded", "running", "done", "rejected"} =>
        \A i \in 1..Len(segments) :
            HasAmp(NodeAt(output, i)) <=> ~ends_with_fn_call(segments[i].tokens)

\* The input without the tokens of its chain operators.
RECURSIVE StripOperators(_, _)
StripOperators(toks, i) ==
    IF i > Len(toks) THEN <<>>
    ELSE IF TrailingAt(toks, i) # "" THEN <<>>
    ELSE IF OperatorAt(toks, i) # ""
    THEN StripOperators(toks, i + OperatorLen(OperatorAt(toks, i)))
    ELSE <<toks[i]>> \o StripOperators(toks, i + 1)

RECURSIVE ConcatTokens(_)
ConcatTokens(segs) ==
    IF segs = <<>> THEN <<>> ELSE segs[1].tokens \o ConcatTokens(Tail(segs))

\* C8: the segments' tokens, concatenated, are the input without its chain
\* operators: a `?` that starts no operator, and what the lookahead consumed,
\* stay in place.
C8_TokenConservation ==
    pc # "input" => ConcatTokens(segments) = StripOperators(input, 1)

\* The kinds of the full chain operators of the input, in order.
RECURSIVE OperatorKinds(_, _)
OperatorKinds(toks, i) ==
    IF i > Len(toks) THEN <<>>
    ELSE IF OperatorAt(toks, i) # ""
    THEN <<OperatorAt(toks, i)>> \o OperatorKinds(toks, i + OperatorLen(OperatorAt(toks, i)))
    ELSE OperatorKinds(toks, i + 1)

\* C9: every full operator of the input makes one segment transition, and the
\* kind of segment i is the kind of the i-th operator.
C9_OneTransitionPerOperator ==
    pc # "input" =>
        /\ Len(segments) - 1 = Len(OperatorKinds(input, 1))
        /\ \A i \in 1..(Len(segments) - 1) : segments[i].variant = OperatorKinds(input, 1)[i]

\* The operators a scanner that reads the spacing would see: a joined `?`
\* before a standalone `.`, or before Ok/Err and a `.`.
SpacedOperatorAt(toks, i) ==
    /\ OperatorAt(toks, i) # ""
    /\ toks[i].attr = "Joint"
    /\ OperatorAt(toks, i) = "Option" => toks[i + 1].attr = "Alone"

\* C10 as claimed: only a joined `?` starts an operator, so the segments
\* closed are at most the spacing-respecting operators.
C10_OnlyJoinedQuestionSplits ==
    pc # "input" =>
        Len(segments) - 1 <= Cardinality({ i \in 1..Len(input) : SpacedOperatorAt(input, i) })

\* The stream with every punctuation's spacing set to Alone.
EraseSpacing(toks) ==
    [i \in 1..Len(toks) |->
        IF toks[i].tt = "Punct" THEN Punct(toks[i].text, "Alone") ELSE toks[i]]

EraseSegmentSpacing(segs) ==
    [i \in 1..Len(segs) |-> OptionalSegment(segs[i].variant, EraseSpacing(segs[i].tokens))]

\* C10 amended: the segmentation does not depend on any spacing attribute; a
\* `?` of either spacing before a `.` of either spacing is a chain operator.
C10_SpacingIgnored ==
    pc # "input" =>
        EraseSegmentSpacing(segments) = split_on_optional_variants(EraseSpacing(input))

\* `a ? .a` with a standalone `?` and a joined `.` is split in two.
C10_Witness ==
    /\ pc # "input"
    /\ input = <<Ident("a"), Punct("?", "Alone"), Punct(".", "Joint"), Ident("a")>>
    /\ Len(segments) = 2
    /\ segments[1].variant = "Option"
====
